---- MODULE Spec2Model ----
(***************************************************************************)
(* Anime-recommendation: a model of src/app.py (the Flask application with *)
(* the similarity recommender) and of src/logic.py (the classifier-based   *)
(* recommendation filter).                                                 *)
(*                                                                         *)
(*   Spec       the web application of src/app.py: artifacts loaded at     *)
(*              process start, then any sequence of requests of one        *)
(*              session (home, login, signup, logout, index, recommend).   *)
(*   SpecLogic  src/logic.py: load_and_clean_data on a csv, then calls of  *)
(*              get_recommendations with every criteria of the bounds.     *)
(*                                                                         *)
(* Python values are modelled with their type: None is a value of its own, *)
(* an int and a str are tagged (IntVal, StrVal), a raised exception is an  *)
(* outcome of its own.  Floats are fixed point (tenths).  The strings that *)
(* the code matches or cuts (title, genre, type) are sequences of          *)
(* characters.                                                             *)
(***************************************************************************)
EXTENDS Integers, Sequences, FiniteSets, TLC

VARIABLES
    \* ---- src/app.py ----
    anime_df,       \* module global: the dataset, or None
    similarity,     \* module global: the similarity matrix, or None
    startup,        \* history: which of the two files could be read at start
    users,          \* the User table, in insertion order
    current_user,   \* the session's logged-in user id, 0 when anonymous
    request,        \* the request being answered (route and form)
    response,       \* what the handler returned for it
    logged_in,      \* history: a login matched an account and no logout came since
    \* ---- src/logic.py ----
    csv,            \* the rows of the csv file given to load_and_clean_data
    df,             \* the cleaned table
    loaded,         \* whether load_and_clean_data has run
    call,           \* the arguments of the last get_recommendations call
    result          \* what it returned

appVars == <<anime_df, similarity, startup, users, current_user, request, response, logged_in>>
logicVars == <<csv, df, loaded, call, result>>
vars == <<anime_df, similarity, startup, users, current_user, request, response, logged_in,
          csv, df, loaded, call, result>>

(***************************************************************************)
(* Bounds.                                                                 *)
(***************************************************************************)
\* rows of anime.csv (src/app.py)
MaxAnime == 7
\* accounts in the user store
MaxUsers == 2

(***************************************************************************)
(* Python values.                                                          *)
(***************************************************************************)
\* request.form.get(...) of a field that was not sent
None == "<None>"

IntVal(k) == [type |-> "int", int |-> k, str |-> ""]
StrVal(s) == [type |-> "str", int |-> 0, str |-> s]

Min(a, b) == IF a < b THEN a ELSE b
Abs(a) == IF a < 0 THEN -a ELSE a

(***************************************************************************)
(* src/app.py: the artifacts loaded at process start.                      *)
(***************************************************************************)
\* the name column of anime.csv; the fourth row repeats the first row's name
NameSeq == <<"a", "b", "c", "a", "d", "e", "f", "g", "h">>
Name(i) == NameSeq[((i - 1) % Len(NameSeq)) + 1]

\* similarity scores in tenths; i, j are 0-based row positions
Score(shape, i, j) ==
    CASE shape = "cosine" -> IF i = j THEN 10 ELSE 9 - Min(9, Abs(i - j))
      [] shape = "dup"    -> IF (i % 2) = (j % 2) THEN 10 ELSE 3
      [] OTHER            -> j

Shapes == {"cosine", "dup", "column"}

Matrix(rows, cols, shape) ==
    [i \in 1..rows |-> [j \in 1..cols |-> Score(shape, i - 1, j - 1)]]

MissingFile == [ok |-> FALSE, data |-> <<>>]

\* similarity.pkl: absent or unreadable, or a matrix: square of any size, or the
\* largest one with a row or a column missing
PklFiles ==
    {MissingFile} \cup
    {[ok |-> TRUE, data |-> Matrix(d[1], d[2], s)] :
        d \in {<<k, k>> : k \in 0..MaxAnime}
              \cup {<<MaxAnime - 1, MaxAnime>>, <<MaxAnime, MaxAnime - 1>>},
        s \in Shapes}

\* anime.csv: absent or unreadable, or its name column
CsvFiles ==
    {MissingFile} \cup
    {[ok |-> TRUE, data |-> [i \in 1..n |-> Name(i)]] : n \in 0..MaxAnime}

NoneObj == [none |-> TRUE, val |-> <<>>]
Some(v) == [none |-> FALSE, val |-> v]

\* try: pickle.load; pd.read_csv  except Exception: both None
LoadArtifacts(pkl, file) ==
    IF pkl.ok /\ file.ok
    THEN [similarity |-> Some(pkl.data), anime_df |-> Some(file.data)]
    ELSE [similarity |-> NoneObj, anime_df |-> NoneObj]

(***************************************************************************)
(* src/app.py: recommend(anime_title).                                     *)
(***************************************************************************)
\* the slice [1:6] of the sorted (index, score) pairs
SliceStart == 1
SliceStop == 6

Return(v) == [raised |-> FALSE, value |-> v]
Raise == [raised |-> TRUE, value |-> <<>>]

\* anime_df[anime_df['name'] == anime_title].index: the labels of the rows whose
\* name equals the title.  read_csv gives a RangeIndex: label = 0-based position.
MatchIndex(names, anime_title) ==
    {i - 1 : i \in {k \in 1..Len(names) : names[k] = anime_title}}

SetMin(S) == CHOOSE x \in S : \A y \in S : x <= y

\* sorted(list(enumerate(distances)), reverse=True, key=lambda x: x[1]): by score
\* descending; sorted is stable and reverse=True keeps the original order of equal
\* keys, so ties go by ascending index.  The result lists the 0-based indexes.
Before(distances, k, j) ==
    \/ distances[k + 1] > distances[j + 1]
    \/ distances[k + 1] = distances[j + 1] /\ k < j

SortedEnumerate(distances) ==
    LET idx == 0..(Len(distances) - 1)
        rank(j) == Cardinality({k \in idx : Before(distances, k, j)})
    IN  [p \in 1..Len(distances) |-> CHOOSE j \in idx : rank(j) = p - 1]

\* seq[a:b] of Python, 0 <= a <= b
Slice(seq, a, b) ==
    IF a >= Len(seq) THEN <<>> ELSE SubSeq(seq, a + 1, Min(b, Len(seq)))

\* anime_df.iloc[i].name: iloc raises IndexError past the end; .name of the row
\* (a Series) is the Series' name, which is the row's index label, an int
IlocName(names, i) == IntVal(i)

\* recommend, past its first return: the lookup of the title and of its row
Lookup(adf, sim, anime_title) ==
    LET hits == MatchIndex(adf.val, anime_title) IN
    IF hits = {} THEN Return(<<>>)          \* .index[0] raises IndexError, caught
    ELSE
    LET anime_index == SetMin(hits) IN
    IF anime_index >= Len(sim.val) THEN Raise   \* similarity[anime_index]
    ELSE
    LET distances == sim.val[anime_index + 1]
        anime_list == Slice(SortedEnumerate(distances), SliceStart, SliceStop)
    IN  IF \E p \in 1..Len(anime_list) : anime_list[p] >= Len(adf.val)
        THEN Raise                              \* anime_df.iloc[i[0]]
        ELSE Return([p \in 1..Len(anime_list) |-> IlocName(adf.val, anime_list[p])])

\* Recommend without its first two lines: None is subscripted, which raises
RecommendUnguarded(adf, sim, anime_title) ==
    IF adf.none \/ sim.none THEN Raise ELSE Lookup(adf, sim, anime_title)

Recommend(adf, sim, anime_title) ==
    IF adf.none \/ sim.none THEN Return(<<>>) ELSE Lookup(adf, sim, anime_title)

(***************************************************************************)
(* src/app.py: the user store and the session.                             *)
(***************************************************************************)
Usernames == {"u1", "u2"}
Passwords == {"p1", "p2"}
\* what request.form.get gives for a text field: not sent, empty, or a text
FormUsernames == {None, ""} \cup Usernames
SignupPasswords == {None, "", "p1"}
LoginPasswords == {None} \cup Passwords
FormAnime == {None, "zz"} \cup {Name(i) : i \in 1..MaxAnime}

\* generate_password_hash / check_password_hash: a hash matches the password it
\* was made from and no other
GeneratePasswordHash(password) == <<"hash", password>>
CheckPasswordHash(pwhash, password) == pwhash = <<"hash", password>>

\* User.query.filter_by(username=username).first(): index in users, 0 for None
FirstUser(username) ==
    IF \E i \in 1..Len(users) : users[i].username = username
    THEN SetMin({i \in 1..Len(users) : users[i].username = username})
    ELSE 0

\* Python truthiness of a form field: None and '' are falsy
Falsy(v) == v = None \/ v = ""

\* current_user.is_authenticated
IsAuthenticated == current_user # 0

NoRequest == [route |-> "", username |-> None, password |-> None, anime |-> None]
Req(route, username, password, anime) ==
    [route |-> route, username |-> username, password |-> password, anime |-> anime]

Resp(kind, target, flash) ==
    [kind |-> kind, target |-> target, flash |-> flash,
     anime_list |-> <<>>, recommendations |-> <<>>, computed |-> FALSE]

Redirect(target, flash) == Resp("redirect", target, flash)
Render(template) == Resp("render", template, "")
\* an exception no handler catches: the request ends in Flask's error handling
Uncaught == Resp("error", "", "")

\* @login_required with login_manager.login_view = 'home'
Unauthorized == Redirect("home", "Please log in to access this page.")

\* anime_df['name'].values if anime_df is not None else []
AnimeTitles == IF anime_df.none THEN <<>> ELSE anime_df.val

(***************************************************************************)
(* src/logic.py: strings.  A string is a sequence of one-character         *)
(* strings.                                                                *)
(***************************************************************************)
\* str.lower(), on the letters the inputs use
Lower(c) ==
    CASE c = "A" -> "a" [] c = "B" -> "b" [] c = "C" -> "c" [] c = "L" -> "l"
      [] c = "M" -> "m" [] c = "T" -> "t" [] c = "V" -> "v"
      [] OTHER -> c

LowerStr(str) == [i \in 1..Len(str) |-> Lower(str[i])]

\* the characters str.strip() removes
Whitespace == {" ", "\n", "\t"}

\* str.strip()
Strip(str) ==
    LET keep == {i \in 1..Len(str) : str[i] \notin Whitespace} IN
    IF keep = {} THEN <<>>
    ELSE SubSeq(str, SetMin(keep), CHOOSE i \in keep : \A j \in keep : j <= i)

\* x.split(',')[0]
FirstField(str) ==
    LET commas == {i \in 1..Len(str) : str[i] = ","} IN
    IF commas = {} THEN str ELSE SubSeq(str, 1, SetMin(commas) - 1)

\* one of the alternatives of r':.*| - .*|\(.*' matches at position i
MarkerAt(title, i) ==
    \/ title[i] = ":"
    \/ title[i] = "("
    \/ /\ i + 2 <= Len(title)
       /\ title[i] = " " /\ title[i + 1] = "-" /\ title[i + 2] = " "

\* where a match that starts at i ends: '.' matches every character but a line
\* feed, so '.*' runs to the end of the line
EndOfLine(title, i) ==
    LET feeds == {j \in i..Len(title) : title[j] = "\n"} IN
    IF feeds = {} THEN Len(title) + 1 ELSE SetMin(feeds)

\* re.sub(r':.*| - .*|\(.*', '', title): every match, left to right, is removed
RECURSIVE ReSubFrom(_, _)
ReSubFrom(title, i) ==
    IF i > Len(title) THEN <<>>
    ELSE IF MarkerAt(title, i) THEN ReSubFrom(title, EndOfLine(title, i))
    ELSE <<title[i]>> \o ReSubFrom(title, i + 1)

\* normalize_title without the cut: every title is its own base title
NormalizeTitleNoCut(title) == Strip(title)

\* normalize_title(title)
NormalizeTitle(title) ==
    LET base == Strip(ReSubFrom(title, 1)) IN
    IF base # <<>> THEN base ELSE Strip(title)

\* re.search(pat, text, re.IGNORECASE) matches at offset k.  The patterns of the
\* inputs hold letters and '.', which matches any character but a line feed.
MatchesAt(pat, text, k) ==
    /\ k + Len(pat) <= Len(text)
    /\ \A i \in 1..Len(pat) :
          \/ pat[i] = "." /\ text[k + i] # "\n"
          \/ pat[i] # "." /\ Lower(pat[i]) = Lower(text[k + i])

\* Series.str.contains(pat, case=False, na=False) on one value: regex=True is the
\* default, so pat is a regular expression
StrContains(text, pat) == \E k \in 0..Len(text) : MatchesAt(pat, text, k)

(***************************************************************************)
(* src/logic.py: the table.                                                *)
(***************************************************************************)
\* rows of the csv in the small files
MaxRows == 2
\* rows of the large file
MaxBig == 11

CsvRow(name, genre, type, rating, members, na) ==
    [name |-> name, genre |-> genre, type |-> type, rating |-> rating,
     members |-> members, na |-> na]

Titles ==
    << <<"A", ":", "1">>,
       <<"A", " ", "-", " ", "2">>,
       <<"A", "(", "3">>,
       <<" ", "B">>,
       <<":", "x">>,
       <<"A", ":", "1", "\n", "B">> >>

GenreCoAc == <<"C", "o", ",", " ", "A", "c">>
GenreAc == <<"A", "c">>
TypeTV == <<"T", "V">>
TypeMovie == <<"M", "o", "v", "i", "e">>

\* ratings in tenths
Ratings == {80, 85}

\* the rows a small csv is made of: every title with every rating, odd titles a
\* TV comedy, even titles an action movie; and two rows with a missing value
RowPool ==
    {CsvRow(Titles[t], IF t % 2 = 1 THEN GenreCoAc ELSE GenreAc,
            IF t % 2 = 1 THEN TypeTV ELSE TypeMovie, r,
            IF t % 2 = 1 THEN 1 ELSE 2, {}) :
        t \in 1..Len(Titles), r \in Ratings}
    \cup {CsvRow(<<"B">>, GenreCoAc, TypeTV, 0, 1, {"rating"}),
          CsvRow(<<"B">>, <<>>, TypeTV, 80, 1, {"genre"})}

RECURSIVE SeqsUpTo(_, _)
SeqsUpTo(S, n) ==
    IF n = 0 THEN {<<>>}
    ELSE LET shorter == SeqsUpTo(S, n - 1)
         IN  shorter \cup {Append(q, x) : q \in {z \in shorter : Len(z) = n - 1}, x \in S}

Letters == <<"a", "b", "c", "d", "e", "f", "g", "h", "i", "j", "k", "l", "m", "n">>

\* a large csv: n TV comedies with titles and ratings of their own
BigCsv(n) ==
    [i \in 1..n |-> CsvRow(<<Letters[((i - 1) % Len(Letters)) + 1]>>,
                           GenreCoAc, TypeTV, 80 + i, 1, {})]

CsvInputs == SeqsUpTo(RowPool, MaxRows) \cup {BigCsv(MaxBig - 1), BigCsv(MaxBig)}

\* pd.read_csv: the rows get the labels 0, 1, ... of a RangeIndex
ReadCsv(rows) ==
    [i \in 1..Len(rows) |->
        [index |-> i - 1, name |-> rows[i].name, genre |-> rows[i].genre,
         type |-> rows[i].type, rating |-> rows[i].rating,
         members |-> rows[i].members, na |-> rows[i].na]]

\* load_and_clean_data: dropna(subset=['rating', 'genre']), then primary_genre.
\* (html.unescape leaves a name without '&' as it is; the names here have none.)
LoadAndCleanData(rows) ==
    LET kept == SelectSeq(ReadCsv(rows), LAMBDA r : r.na = {})
    IN  [i \in 1..Len(kept) |->
            [index |-> kept[i].index, name |-> kept[i].name, genre |-> kept[i].genre,
             type |-> kept[i].type, rating |-> kept[i].rating,
             members |-> kept[i].members,
             primary_genre |-> Strip(FirstField(kept[i].genre))]]

(***************************************************************************)
(* src/logic.py: get_recommendations.                                      *)
(***************************************************************************)
\* the columns of pd.get_dummies(X, columns=['primary_genre'])
MembersCol == [col |-> "members", cat |-> <<>>]
GenreCol(g) == [col |-> "primary_genre", cat |-> g]

\* training column layouts: both primary genres seen at training time, or 'Co'
\* not seen
TrainingCols ==
    { <<MembersCol, GenreCol(<<"A", "c">>), GenreCol(<<"C", "o">>)>>,
      <<MembersCol, GenreCol(<<"A", "c">>)>> }

\* the fitted classifiers of the inputs, by what they predict from a feature row
Models == {"always", "popular", "comedy"}

\* the mask of one row: genre (a regular expression, case-insensitive), rating
\* and, unless 'all', type
Mask(row, genre, min_rating, anime_type) ==
    /\ StrContains(row.genre, genre)
    /\ row.rating >= min_rating
    /\ LowerStr(anime_type) # <<"a", "l", "l">> =>
           LowerStr(row.type) = LowerStr(anime_type)

\* one row of X_pred: get_dummies of the filtered rows, reindexed to the training
\* columns with fill_value=0
AlignedFeatures(row, training_cols) ==
    [p \in 1..Len(training_cols) |->
        IF training_cols[p] = MembersCol THEN row.members
        ELSE IF training_cols[p] = GenreCol(row.primary_genre) THEN 1
        ELSE 0]

\* model.predict on one row of X_pred
Predict(model, training_cols, x) ==
    CASE model = "always" -> 1
      [] model = "popular" ->
            IF \E p \in 1..Len(x) : training_cols[p] = MembersCol /\ x[p] >= 2
            THEN 1 ELSE 0
      [] OTHER ->
            IF \E p \in 1..Len(x) :
                  training_cols[p] = GenreCol(<<"C", "o">>) /\ x[p] = 1
            THEN 1 ELSE 0

SeqToSet(seq) == {seq[i] : i \in 1..Len(seq)}

\* the orders of a set of rows by rating descending, rows of equal rating in
\* any order
RECURSIVE SortOrders(_)
SortOrders(rows) ==
    IF rows = {} THEN {<<>>}
    ELSE LET top == {r \in rows : \A q \in rows : q.rating <= r.rating}
         IN  UNION {{<<r>> \o rest : rest \in SortOrders(rows \ {r})} : r \in top}

\* sort_values(by='rating', ascending=False): kind='quicksort' is the default and
\* is not stable, so rows of equal rating come in any order.  The set of the
\* orders the sort can return.
SortValues(rows) == SortOrders(rows)

\* drop_duplicates(subset=['base_title'], keep='first')
DropDuplicates(rows) ==
    LET first(i) == \A j \in 1..(i - 1) :
                        NormalizeTitle(rows[j].name) # NormalizeTitle(rows[i].name)
        kept == {i \in 1..Len(rows) : first(i)}
        nth(p) == CHOOSE i \in kept : Cardinality({j \in kept : j < i}) = p - 1
    IN  [p \in 1..Cardinality(kept) |-> rows[nth(p)]]

\* recommendations[['name', 'genre', 'type', 'rating']] (the index stays)
Columns(rows) ==
    [p \in 1..Len(rows) |->
        [index |-> rows[p].index, name |-> rows[p].name, genre |-> rows[p].genre,
         type |-> rows[p].type, rating |-> rows[p].rating]]

Returned(rows) == [called |-> TRUE, none |-> FALSE, rows |-> rows]
ReturnedNone == [called |-> TRUE, none |-> TRUE, rows |-> <<>>]
NotCalled == [called |-> FALSE, none |-> TRUE, rows |-> <<>>]

\* df[mask]
Filtered(table, genre, min_rating, anime_type) ==
    SelectSeq(table, LAMBDA r : Mask(r, genre, min_rating, anime_type))

\* filtered_df[filtered_df['prediction'] == 1]
Recommendable(filtered, model, training_cols) ==
    SelectSeq(filtered, LAMBDA r :
        Predict(model, training_cols, AlignedFeatures(r, training_cols)) = 1)

\* get_recommendations(df, model, training_cols, genre, min_rating, anime_type):
\* the set of what the call can return
GetRecommendations(table, model, training_cols, genre, min_rating, anime_type) ==
    LET filtered_df == Filtered(table, genre, min_rating, anime_type)
        predicted == Recommendable(filtered_df, model, training_cols)
    IN  IF filtered_df = <<>> THEN {ReturnedNone}
        ELSE IF predicted = <<>> THEN {ReturnedNone}
        ELSE {Returned(Columns(DropDuplicates(recommendations))) :
                  recommendations \in SortValues(SeqToSet(predicted))}

\* the criteria of the calls
GenreInputs == { <<"c", "o">>, <<"A", ".">> }
MinRatings == {80, 85, 110}
TypeInputs == { <<"A", "l", "l">>, <<"t", "v">> }

NoCall == [model |-> "", training_cols |-> <<>>, genre |-> <<>>,
           min_rating |-> 0, anime_type |-> <<>>]

\* the application's variables rest while src/logic.py runs
AppIdle ==
    /\ anime_df = NoneObj
    /\ similarity = NoneObj
    /\ startup = [pkl |-> FALSE, csv |-> FALSE]
    /\ users = <<>>
    /\ current_user = 0
    /\ request = NoRequest
    /\ response = Resp("", "", "")
    /\ logged_in = FALSE

InitLogic ==
    /\ csv \in CsvInputs
    /\ df = <<>>
    /\ loaded = FALSE
    /\ call = NoCall
    /\ result = NotCalled
    /\ AppIdle

load_and_clean_data ==
    /\ ~loaded
    /\ loaded' = TRUE
    /\ df' = LoadAndCleanData(csv)
    /\ UNCHANGED <<csv, call, result>>
    /\ UNCHANGED appVars

\* one call on the loaded table (the function is pure: a call leaves nothing
\* behind for the next one)
get_recommendations ==
    /\ loaded
    /\ ~result.called
    /\ \E model \in Models, training_cols \in TrainingCols, genre \in GenreInputs,
          min_rating \in MinRatings, anime_type \in TypeInputs :
          /\ call' = [model |-> model, training_cols |-> training_cols,
                      genre |-> genre, min_rating |-> min_rating,
                      anime_type |-> anime_type]
          /\ result' \in GetRecommendations(df, model, training_cols, genre,
                                            min_rating, anime_type)
    /\ UNCHANGED <<csv, df, loaded>>
    /\ UNCHANGED appVars

NextLogic ==
    \/ load_and_clean_data
    \/ get_recommendations

SpecLogic == InitLogic /\ [][NextLogic]_vars

(***************************************************************************)
(* src/app.py: the routes.  Each action is one request of the session.     *)
(***************************************************************************)
\* @app.route('/')
home ==
    /\ request' = Req("home", None, None, None)
    /\ response' = IF IsAuthenticated THEN Redirect("index", "") ELSE Render("home.html")
    /\ UNCHANGED <<anime_df, similarity, startup, users, current_user, logged_in>>
    /\ UNCHANGED logicVars

\* LoginOutcome without the password check
LoginOutcomeAnyPassword(username, password) ==
    IF FirstUser(username) = 0 THEN "invalid" ELSE "in"

\* the outcome of login for a form: "in" (login_user), "invalid" or "raise"
\* (check_password_hash of a password that is None raises)
LoginOutcome(username, password) ==
    LET user == FirstUser(username) IN
    IF user = 0 THEN "invalid"
    ELSE IF password = None THEN "raise"
    ELSE IF CheckPasswordHash(users[user].password_hash, password) THEN "in"
    ELSE "invalid"

\* @app.route('/login', methods=['POST'])
login ==
    \E username \in FormUsernames, password \in LoginPasswords :
        LET outcome == LoginOutcome(username, password) IN
        /\ request' = Req("login", username, password, None)
        /\ response' = CASE outcome = "in" -> Redirect("index", "")
                         [] outcome = "invalid" ->
                                Redirect("home", "Invalid username or password.")
                         [] OTHER -> Uncaught
        /\ current_user' = IF outcome = "in"
                           THEN users[FirstUser(username)].id ELSE current_user
        /\ logged_in' = IF \E i \in 1..Len(users) :
                               /\ users[i].username = username
                               /\ password # None
                               /\ users[i].password_hash = <<"hash", password>>
                        THEN TRUE ELSE logged_in
        /\ UNCHANGED <<anime_df, similarity, startup, users>>
        /\ UNCHANGED logicVars

\* SignupOutcome without the lookup of an existing user
SignupOutcomeNoLookup(username, password) ==
    IF Falsy(username) \/ Falsy(password) THEN "required" ELSE "created"

\* the outcome of signup for a form: "required", "exists" or "created"
SignupOutcome(username, password) ==
    IF Falsy(username) \/ Falsy(password) THEN "required"
    ELSE IF FirstUser(username) # 0 THEN "exists"
    ELSE "created"

\* User(username=username); set_password(password); db.session.add; commit
NewUser(username, password) ==
    [id |-> Len(users) + 1, username |-> username,
     password_hash |-> GeneratePasswordHash(password)]

\* @app.route('/signup', methods=['POST'])
signup ==
    \E username \in FormUsernames, password \in SignupPasswords :
        LET outcome == SignupOutcome(username, password) IN
        /\ outcome = "created" => Len(users) < MaxUsers
        /\ request' = Req("signup", username, password, None)
        /\ response' =
              CASE outcome = "required" ->
                       Redirect("home", "Username and password are required.")
                [] outcome = "exists" -> Redirect("home", "Username already exists.")
                [] OTHER ->
                       Redirect("home", "Account created successfully! Please log in.")
        /\ users' = IF outcome = "created"
                    THEN Append(users, NewUser(username, password)) ELSE users
        /\ UNCHANGED <<anime_df, similarity, startup, current_user, logged_in>>
        /\ UNCHANGED logicVars

\* @app.route('/logout') @login_required
logout ==
    /\ request' = Req("logout", None, None, None)
    /\ response' = IF IsAuthenticated THEN Redirect("home", "") ELSE Unauthorized
    /\ current_user' = 0
    /\ logged_in' = FALSE
    /\ UNCHANGED <<anime_df, similarity, startup, users>>
    /\ UNCHANGED logicVars

\* @app.route('/index') @login_required
index ==
    /\ request' = Req("index", None, None, None)
    /\ response' = IF IsAuthenticated
                   THEN [Render("index.html") EXCEPT !.anime_list = AnimeTitles]
                   ELSE Unauthorized
    /\ UNCHANGED <<anime_df, similarity, startup, users, current_user, logged_in>>
    /\ UNCHANGED logicVars

\* the body of the /recommend view, once login_required let the request in
RecommendView(selected_anime) ==
    LET recommendations == Recommend(anime_df, similarity, selected_anime) IN
    IF recommendations.raised
    THEN [Uncaught EXCEPT !.computed = TRUE]
    ELSE [Render("index.html") EXCEPT !.anime_list = AnimeTitles,
                                      !.recommendations = recommendations.value,
                                      !.computed = TRUE]

\* @app.route('/recommend', methods=['POST']) @login_required
get_recommendations_view ==
    \E selected_anime \in FormAnime :
        /\ request' = Req("recommend", None, None, selected_anime)
        /\ response' = IF IsAuthenticated THEN RecommendView(selected_anime)
                       ELSE Unauthorized
        /\ UNCHANGED <<anime_df, similarity, startup, users, current_user, logged_in>>
        /\ UNCHANGED logicVars

\* src/logic.py is not part of this specification: its variables rest
LogicIdle ==
    /\ csv = <<>>
    /\ df = <<>>
    /\ loaded = FALSE
    /\ call = NoCall
    /\ result = NotCalled

\* the process after start: the artifacts loaded (or not), the store empty
Init ==
    /\ \E pkl \in PklFiles, file \in CsvFiles :
           \* the matrix was built for this dataset, or for one a row apart
           /\ (pkl.ok /\ file.ok) => Abs(Len(pkl.data) - Len(file.data)) <= 1
           /\ similarity = LoadArtifacts(pkl, file).similarity
           /\ anime_df = LoadArtifacts(pkl, file).anime_df
           /\ startup = [pkl |-> pkl.ok, csv |-> file.ok]
    /\ users = <<>>
    /\ current_user = 0
    /\ request = NoRequest
    /\ response = Resp("", "", "")
    /\ logged_in = FALSE
    /\ LogicIdle

Next ==
    \/ home
    \/ login
    \/ signup
    \/ logout
    \/ index
    \/ get_recommendations_view

Spec == Init /\ [][Next]_vars

(***************************************************************************)
(* Claims about src/app.py, checked under Spec.                            *)
(***************************************************************************)
\* the last request ran recommend(title)
RecommendRan == request.route = "recommend" /\ response.computed

\* the last request ran recommend(title) for a title some row of the loaded
\* dataset has
RecommendOfPresentTitle ==
    /\ RecommendRan
    /\ ~anime_df.none
    /\ ~similarity.none
    /\ MatchIndex(anime_df.val, request.anime) # {}

\* the similarity matrix is square and has one row per row of the dataset
Aligned ==
    /\ Len(similarity.val) = Len(anime_df.val)
    /\ \A i \in 1..Len(similarity.val) : Len(similarity.val[i]) = Len(anime_df.val)

\* the 0-based position of the first row whose name is the requested title
OwnRow == SetMin(MatchIndex(anime_df.val, request.anime))

\* C3: recommend(title) for a title of the dataset never includes the title
\* itself (its own row) among its results, also when another row's score is equal
\* to or greater than the title's score with itself.
C3_NeverItself ==
    (RecommendOfPresentTitle /\ Aligned /\ response.kind = "render") =>
        \A p \in 1..Len(response.recommendations) :
            /\ response.recommendations[p] # IntVal(OwnRow)
            /\ response.recommendations[p] # StrVal(request.anime)

\* the rows other than OwnRow that have a score in OwnRow's similarity vector
OtherRows ==
    LET n == Min(Len(anime_df.val), Len(similarity.val[OwnRow + 1]))
    IN  {j \in 0..(n - 1) : j # OwnRow}

\* the other rows by score descending (equal scores by position), at most five,
\* as their titles
FiveMostSimilarTitles ==
    LET d == similarity.val[OwnRow + 1]
        rank(j) == Cardinality({k \in OtherRows : Before(d, k, j)})
        m == Min(5, Cardinality(OtherRows))
    IN  [p \in 1..m |->
            StrVal(anime_df.val[(CHOOSE j \in OtherRows : rank(j) = p - 1) + 1])]

\* the title's score with itself is higher than its score with any other row
OwnScoreHighest ==
    \A j \in OtherRows :
        similarity.val[OwnRow + 1][j + 1] < similarity.val[OwnRow + 1][OwnRow + 1]

\* C4 (stated for the matrices in which the title is most similar to itself,
\* where the first sorted entry is the title's own row): for a title of the
\* dataset recommend(title) returns the titles (the name field) of the five
\* other rows most similar to the first row of that name, in score-descending
\* order.
C4_FiveMostSimilarTitles ==
    (RecommendOfPresentTitle /\ Aligned /\ OwnScoreHighest) =>
        /\ response.kind = "render"
        /\ response.recommendations = FiveMostSimilarTitles

\* the similarity feature is disabled: a file could not be read at start
Disabled == ~startup.pkl \/ ~startup.csv

\* C5: recommend(title) returns an empty sequence and raises nothing when no row
\* has the title and when the dataset or the similarity artifact failed to load
\* at start; this holds of every request of the session.
C5_EmptyWhenAbsentOrDisabled ==
    (RecommendRan /\ (Disabled \/ anime_df.none
                        \/ MatchIndex(anime_df.val, request.anime) = {})) =>
        /\ response.kind = "render"
        /\ response.recommendations = <<>>

\* a lookup answered while the dataset could be read and the similarity
\* artifact could not, after an earlier request of the session
C5_Witness ==
    /\ RecommendRan
    /\ startup.csv /\ ~startup.pkl
    /\ request.anime = "a"
    /\ Len(users) = MaxUsers
    /\ response.kind = "render"

\* C6: /index and /recommend compute and render only while the session is
\* authenticated (a login matched a stored account and no logout came since);
\* otherwise they redirect to home and recommend does not run.
C6_AuthenticatedOnly ==
    request.route \in {"index", "recommend"} =>
        /\ (response.kind = "render" \/ response.computed) => logged_in
        /\ ~logged_in => /\ response.kind = "redirect"
                         /\ response.target = "home"
                         /\ ~response.computed
        /\ logged_in => response.kind # "redirect"

\* a recommendation rendered for a logged-in session
C6_Witness ==
    /\ request.route = "recommend"
    /\ response.kind = "render"
    /\ Len(response.recommendations) = 5
    /\ logged_in

StoredUsernames == {users[i].username : i \in 1..Len(users)}

UniqueUsernames ==
    \A i, j \in 1..Len(users) : users[i].username = users[j].username => i = j

ValidationMessages ==
    {"Username and password are required.", "Username already exists."}

\* C7: a signup with a missing username, a missing password or a stored username
\* leaves the user store unchanged and answers with a validation message; the
\* store changes only by a signup with both fields and a new username, which
\* appends that account; no two accounts ever share a username.
C7_SignupStep ==
    /\ (request'.route = "signup"
          /\ (Falsy(request'.username) \/ Falsy(request'.password)
                \/ request'.username \in StoredUsernames)) =>
            /\ users' = users
            /\ response'.flash \in ValidationMessages
    /\ users' # users =>
            /\ request'.route = "signup"
            /\ ~Falsy(request'.username) /\ ~Falsy(request'.password)
            /\ request'.username \notin StoredUsernames
            /\ Len(users') = Len(users) + 1
            /\ SubSeq(users', 1, Len(users)) = users
            /\ users'[Len(users')].username = request'.username
    /\ UniqueUsernames'

C7_SignupGuardsStore == [][C7_SignupStep]_vars

\* a signup refused because the username is stored
C7_Witness ==
    /\ request.route = "signup"
    /\ response.flash = "Username already exists."
    /\ Len(users) = 1

\* C8: no exception raised while computing a recommendation leaves the
\* /recommend handler uncaught.
C8_NoUncaughtException ==
    request.route = "recommend" => response.kind # "error"

(***************************************************************************)
(* Claims about src/logic.py, checked under SpecLogic.                     *)
(***************************************************************************)
\* get_recommendations returned a result, not None
HasResult == result.called /\ ~result.none

\* the rows of the cleaned table that match the criteria of the call and that
\* the model predicts recommendable
Candidates ==
    SeqToSet(Recommendable(
        Filtered(df, call.genre, call.min_rating, call.anime_type),
        call.model, call.training_cols))

\* C1: a result of get_recommendations holds at most 10 rows.
C1_AtMostTenRows == HasResult => Len(result.rows) <= 10

\* the base title as the specification words it: the title cut at its first
\* ':', ' - ' or '(' and trimmed, or the trimmed title when that is empty
CutAtFirstMarker(title) ==
    LET markers == {i \in 1..Len(title) : MarkerAt(title, i)}
        base == IF markers = {} THEN Strip(title)
                ELSE Strip(SubSeq(title, 1, SetMin(markers) - 1))
    IN  IF base # <<>> THEN base ELSE Strip(title)

\* the base title line by line: of every line of the title, what precedes the
\* line's first ':', ' - ' or '(' is kept (line feeds are kept); then trimmed, or
\* the trimmed title when that is empty
CutEachLine(title) ==
    LET cut(i) == /\ title[i] # "\n"
                  /\ \E j \in 1..i : /\ MarkerAt(title, j)
                                     /\ \A k \in j..i : title[k] # "\n"
        base == Strip(SelectSeq([i \in 1..Len(title) |-> <<i, title[i]>>],
                                LAMBDA c : ~cut(c[1])))
        chars == [i \in 1..Len(base) |-> base[i][2]]
    IN  IF chars # <<>> THEN chars ELSE Strip(title)

\* C2 as stated: no two returned rows have the same base title (the title cut at
\* its first marker), and no predicted-recommendable matching row of a returned
\* row's base title is rated higher than it.
C2_OneRowPerBaseTitle ==
    HasResult =>
        /\ \A i, j \in 1..Len(result.rows) :
              CutAtFirstMarker(result.rows[i].name)
                  = CutAtFirstMarker(result.rows[j].name) => i = j
        /\ \A i \in 1..Len(result.rows) : \A q \in Candidates :
              CutAtFirstMarker(q.name) = CutAtFirstMarker(result.rows[i].name)
                  => q.rating <= result.rows[i].rating

\* C2 as amended: no two returned rows have the same base title, cut line by
\* line; every returned row is a predicted-recommendable matching row and none
\* of its base title is rated higher; every such row's base title is returned.
C2_OneRowPerLineCutTitle ==
    HasResult =>
        /\ \A i, j \in 1..Len(result.rows) :
              CutEachLine(result.rows[i].name) = CutEachLine(result.rows[j].name)
                  => i = j
        /\ \A i \in 1..Len(result.rows) :
              /\ \E q \in Candidates : /\ q.index = result.rows[i].index
                                       /\ q.name = result.rows[i].name
                                       /\ q.rating = result.rows[i].rating
              /\ \A q \in Candidates :
                    CutEachLine(q.name) = CutEachLine(result.rows[i].name)
                        => q.rating <= result.rows[i].rating
        /\ \A q \in Candidates : \E i \in 1..Len(result.rows) :
              CutEachLine(q.name) = CutEachLine(result.rows[i].name)

\* two seasons of one show with different ratings were the candidates and one
\* row came back
C2_Witness ==
    /\ HasResult
    /\ Len(result.rows) = 1
    /\ Cardinality(Candidates) = 2
    /\ \E q, r \in Candidates :
          /\ q.name # r.name
          /\ CutEachLine(q.name) = CutEachLine(r.name)
          /\ q.rating < r.rating

\* text contains pat as literal text, case-insensitively
StrContainsLiteral(text, pat) ==
    \E k \in 0..Len(text) :
        /\ k + Len(pat) <= Len(text)
        /\ \A i \in 1..Len(pat) : Lower(pat[i]) = Lower(text[k + i])

\* the criteria of the call, the genre as literal text
SatisfiesCriteria(row) ==
    /\ StrContainsLiteral(row.genre, call.genre)
    /\ row.rating >= call.min_rating
    /\ LowerStr(call.anime_type) # <<"a", "l", "l">> =>
           LowerStr(row.type) = LowerStr(call.anime_type)

\* C9: every returned row satisfies the criteria (its genre contains the genre
\* text literally, case-insensitively; rating >= min_rating; type equal
\* case-insensitively unless 'all'), and when no row of the cleaned table
\* satisfies them None (NoMatch) is returned.
C9_RowsSatisfyCriteria ==
    result.called =>
        /\ \A i \in 1..Len(result.rows) : SatisfiesCriteria(result.rows[i])
        /\ (\A i \in 1..Len(df) : ~SatisfiesCriteria(df[i])) => result.none

\* C10: the returned rows are in non-increasing order of rating, and rows of
\* equal rating are in the order they had in the filtered set (the order of the
\* table, which the index labels give).
C10_SortedAndStable ==
    HasResult =>
        \A i, j \in 1..Len(result.rows) :
            i < j =>
                /\ result.rows[i].rating >= result.rows[j].rating
                /\ result.rows[i].rating = result.rows[j].rating
                       => result.rows[i].index < result.rows[j].index

====
